---------------------------- MODULE Spec2Model ----------------------------
(***************************************************************************)
(* A model of lsst::meas::algorithms' coadd aggregates and shapelet        *)
(* interpolation engine:                                                   *)
(*   - CoaddBoundedFieldElement / CoaddBoundedField  (CoaddBoundedField.h) *)
(*   - CoaddPsfKernel / CoaddPsf                     (CoaddPsf.h)          *)
(*   - ShapeletInterpolationImpl                (ShapeletInterpolation.cc) *)
(*                                                                         *)
(* Conventions.                                                            *)
(*   * A shared pointer PTR(T) is a record [addr, val]: addr is the        *)
(*     address of the pointee (0 for a null pointer) and val its immutable *)
(*     payload.  shared_ptr's operator== compares addresses only (PtrEq).  *)
(*   * Pixel positions are one-dimensional integers; a WCS is a            *)
(*     translation between pixel and sky coordinates.                      *)
(*   * double values are exact: weights, field values and scales are       *)
(*     integers and quotients are rationals [num, den] in lowest terms.    *)
(*   * The three components are independent, so each has a specification   *)
(*     of its own (SpecField, SpecPsf, SpecShapelet) over its own          *)
(*     variables; the other variables stay at their initial value.         *)
(***************************************************************************)
EXTENDS Integers, Sequences, FiniteSets, TLC

VARIABLES
    \* ---- CoaddBoundedField
    fld,          \* the field under study (NoField before construction)
    fldArgs,      \* ghost: the constructor call that built fld
    derived,      \* a field obtained from fld by operator* or by write+read
    derivedFrom,  \* ghost: how derived was obtained
    evalRes,      \* the last evaluate call: which object, position, outcome
    nextAddr,     \* next free heap address (allocations by operator* / read)
    \* ---- CoaddPsfKernel / CoaddPsf
    kernels,      \* the heap of CoaddPsfKernel objects: address k |-> _components
    kernelHist,   \* ghost: per kernel, its components at creation and the adds since
    psfs,         \* the CoaddPsf objects: i |-> the address of the kernel it holds
    cloneOf,      \* ghost: per CoaddPsf, the CoaddPsf it was cloned from (0: none)
    psfRes,       \* the last computeImage / getComponentCount call and its result
    \* ---- ShapeletInterpolationImpl
    eng,          \* the engine (NoEngine before construction)
    engPolicy,    \* ghost: the policy the engine was constructed from
    cells,        \* the spatial cell set: a sequence of cells of candidates
    calcDone,     \* ghost: whether a calculate call has completed
    shRes         \* the last query on the engine and its result

fieldVars == <<fld, fldArgs, derived, derivedFrom, evalRes, nextAddr>>
psfVars == <<kernels, kernelHist, psfs, cloneOf, psfRes>>
shapeletVars == <<eng, engPolicy, cells, calcDone, shRes>>
vars == <<fieldVars, psfVars, shapeletVars>>

(***************************************************************************)
(* Bounds of the model                                                     *)
(***************************************************************************)
MaxPos == 3
MaxElems == 2
MaxComps == 2
MaxOrder == 1
MaxCands == 2

(***************************************************************************)
(* Exact arithmetic                                                        *)
(***************************************************************************)
Abs(x) == IF x < 0 THEN -x ELSE x

RECURSIVE GCD(_, _)
GCD(a, b) == IF b = 0 THEN a ELSE GCD(b, a % b)

\* the quotient n / d (d # 0) in lowest terms with a positive denominator
Rat(n, d) ==
    LET g == GCD(Abs(n), Abs(d))
        s == IF d < 0 THEN -1 ELSE 1
    IN  [num |-> s * (n \div g), den |-> s * (d \div g)]

RatOfInt(n) == [num |-> n, den |-> 1]

\* the product of the integer s and the rational r
RatScale(s, r) == Rat(s * r.num, r.den)

\* the sum of a sequence of integers
RECURSIVE SeqSum(_)
SeqSum(s) == IF s = <<>> THEN 0 ELSE Head(s) + SeqSum(Tail(s))

(***************************************************************************)
(* Shared pointers                                                         *)
(***************************************************************************)
IsNull(p) == p.addr = 0
PtrEq(p, q) == p.addr = q.addr

(***************************************************************************)
(* Collaborators of CoaddBoundedField                                      *)
(***************************************************************************)
Positions == 0..MaxPos

\* afw::geom::Box2I over the one-dimensional pixel axis
Box(lo, hi) == [lo |-> lo, hi |-> hi]
BoxContains(b, x) == b.lo <= x /\ x <= b.hi
CoaddBBox == Box(0, MaxPos)

\* afw::math::BoundedField payloads: evaluate(x) = c0 + c1 * x inside bbox
FieldA == [addr |-> 1, val |-> [c0 |-> 10, c1 |-> 0, bbox |-> Box(-1, MaxPos)]]
FieldB == [addr |-> 2, val |-> [c0 |-> 4, c1 |-> 1, bbox |-> Box(0, 2)]]

\* afw::geom::SkyWcs payloads: sky = pixel + val
NullWcs == [addr |-> 0, val |-> 0]
CoaddWcs == [addr |-> 3, val |-> 0]
WcsShift == [addr |-> 4, val |-> 1]

\* afw::geom::polygon::Polygon payloads: the set of pixels inside
NullPoly == [addr |-> 0, val |-> {}]
PolyLow == [addr |-> 5, val |-> {0, 1}]

Defaults == {0, 5}
Scales == {-1, 0, 2}

\* the first heap address not taken by the objects above
FirstFreeAddr == PolyLow.addr + 1

pixelToSky(wcs, x) == x + wcs.val
skyToPixel(wcs, sky) == sky - wcs.val
BoundedFieldEvaluate(field, x) == field.val.c0 + field.val.c1 * x
PolygonContains(poly, x) == x \in poly.val

(***************************************************************************)
(* CoaddBoundedFieldElement                                                *)
(***************************************************************************)
\* a constructor that drops its weight argument and keeps the default 1.0
CoaddBoundedFieldElementNoWeight(field_, wcs_, validPolygon_, weight_) ==
    [field |-> field_, wcs |-> wcs_, validPolygon |-> validPolygon_, weight |-> 1]

CoaddBoundedFieldElement(field_, wcs_, validPolygon_, weight_) ==
    [field |-> field_, wcs |-> wcs_, validPolygon |-> validPolygon_,
     weight |-> weight_]

\* operator==: the three shared pointers are compared as pointers
ElementEq(a, b) ==
    /\ PtrEq(a.field, b.field)
    /\ PtrEq(a.wcs, b.wcs)
    /\ PtrEq(a.validPolygon, b.validPolygon)
    /\ a.weight = b.weight

ElementNe(a, b) == ~ElementEq(a, b)

\* the argument lists a caller may pass to the element constructor
ElementArgs ==
    { [field |-> FieldA, wcs |-> NullWcs, validPolygon |-> NullPoly, weight |-> 2],
      [field |-> FieldB, wcs |-> NullWcs, validPolygon |-> NullPoly, weight |-> 1],
      [field |-> FieldB, wcs |-> WcsShift, validPolygon |-> NullPoly, weight |-> 2],
      [field |-> FieldA, wcs |-> NullWcs, validPolygon |-> PolyLow, weight |-> 1],
      [field |-> FieldB, wcs |-> WcsShift, validPolygon |-> PolyLow, weight |-> 3] }

RECURSIVE SeqsUpTo(_, _)
SeqsUpTo(S, n) ==
    IF n = 0 THEN {<<>>}
    ELSE LET shorter == SeqsUpTo(S, n - 1)
         IN  shorter \cup {Append(s, x) : s \in {t \in shorter : Len(t) = n - 1}, x \in S}

MakeElements(args) ==
    [i \in 1..Len(args) |->
        CoaddBoundedFieldElement(args[i].field, args[i].wcs,
                                 args[i].validPolygon, args[i].weight)]

(***************************************************************************)
(* CoaddBoundedField                                                       *)
(***************************************************************************)
NoField == [kind |-> "none"]
IsField(f) == f.kind = "CoaddBoundedField"

\* the three-argument constructor: no default, a missing contribution throws
CoaddBoundedField3(bbox, coaddWcs, elements) ==
    [kind |-> "CoaddBoundedField", bbox |-> bbox, coaddWcs |-> coaddWcs,
     elements |-> elements, throwOnMissing |-> TRUE, default |-> 0]

\* the four-argument constructor: default_ stands in for a missing contribution
CoaddBoundedField4(bbox, coaddWcs, elements, default_) ==
    [kind |-> "CoaddBoundedField", bbox |-> bbox, coaddWcs |-> coaddWcs,
     elements |-> elements, throwOnMissing |-> FALSE, default |-> default_]

\* position p of the coadd frame in the frame of element e
TransformToElement(f, e, p) ==
    IF IsNull(e.wcs) THEN p
    ELSE skyToPixel(e.wcs, pixelToSky(f.coaddWcs, p))

\* the element's valid region: its polygon, or its field's box without one
InValidRegion(e, x) ==
    IF IsNull(e.validPolygon) THEN BoxContains(e.field.val.bbox, x)
    ELSE PolygonContains(e.validPolygon, x)

\* _throwOnMissing / _default ignored: a missing contribution always throws
OnMissingAlwaysThrow(f) == [kind |-> "NoContribution"]

\* _throwOnMissing ignored: a missing contribution always yields _default
OnMissingAlwaysDefault(f) == [kind |-> "value", val |-> RatOfInt(f.default)]

\* _throwOnMissing: "instead of using _default, raise an exception";
\* _default: "when none of the elements contribute at a point, return this value"
OnMissing(f) ==
    IF f.throwOnMissing THEN [kind |-> "NoContribution"]
    ELSE [kind |-> "value", val |-> RatOfInt(f.default)]

\* the loop of evaluate over elements i..n with the running sums
RECURSIVE EvaluateLoop(_, _, _, _, _)
EvaluateLoop(f, p, i, numerator, denominator) ==
    IF i > Len(f.elements) THEN [numerator |-> numerator, denominator |-> denominator]
    ELSE LET e == f.elements[i]
             x == TransformToElement(f, e, p)
         IN  IF InValidRegion(e, x)
             THEN EvaluateLoop(f, p, i + 1,
                               numerator + e.weight * BoundedFieldEvaluate(e.field, x),
                               denominator + e.weight)
             ELSE EvaluateLoop(f, p, i + 1, numerator, denominator)

evaluate(f, p) ==
    LET sums == EvaluateLoop(f, p, 1, 0, 0)
    IN  IF sums.denominator > 0
        THEN [kind |-> "value", val |-> Rat(sums.numerator, sums.denominator)]
        ELSE OnMissing(f)

\* operator* that scales the weights instead of the per-element fields
operatorTimesScalesWeights(f, scale, scaleDefault, base) ==
    [f EXCEPT !.elements =
        [i \in 1..Len(f.elements) |->
            [f.elements[i] EXCEPT !.weight = @ * scale]]]

\* operator*: a new field whose per-element fields are pre-scaled (each a new
\* BoundedField object, allocated from address base on), with the weights and
\* valid regions kept.  Whether the default value is scaled with the fields is
\* left open: scaleDefault picks.
operatorTimes(f, scale, scaleDefault, base) ==
    [f EXCEPT
        !.elements =
            [i \in 1..Len(f.elements) |->
                [f.elements[i] EXCEPT
                    !.field = [addr |-> base + i - 1,
                               val |-> [@.val EXCEPT !.c0 = @ * scale,
                                                     !.c1 = @ * scale]]]],
        !.default = IF scaleDefault THEN @ * scale ELSE @]

\* operator==: same bounding box, same coadd WCS (by value), and element lists
\* equal element by element in the same order
FieldEq(a, b) ==
    /\ a.bbox = b.bbox
    /\ a.coaddWcs.val = b.coaddWcs.val
    /\ Len(a.elements) = Len(b.elements)
    /\ \A i \in 1..Len(a.elements) : ElementEq(a.elements[i], b.elements[i])

\* write: the archive record {bounding box, coadd WCS, element list, default}
write(f) ==
    [bbox |-> f.bbox,
     coaddWcs |-> f.coaddWcs.val,
     elements |-> [i \in 1..Len(f.elements) |->
                      [field |-> f.elements[i].field.val,
                       hasWcs |-> ~IsNull(f.elements[i].wcs),
                       wcs |-> f.elements[i].wcs.val,
                       hasPolygon |-> ~IsNull(f.elements[i].validPolygon),
                       validPolygon |-> f.elements[i].validPolygon.val,
                       weight |-> f.elements[i].weight]],
     throwOnMissing |-> f.throwOnMissing,
     default |-> f.default]

\* Factory::read: every archived object is rebuilt as a new heap object, the
\* coadd WCS at base and element i's members at base + 3*i - 2 .. base + 3*i
FactoryRead(archive, base) ==
    LET elements ==
            [i \in 1..Len(archive.elements) |->
                LET a == archive.elements[i] IN
                CoaddBoundedFieldElement(
                    [addr |-> base + 3 * i - 2, val |-> a.field],
                    IF a.hasWcs THEN [addr |-> base + 3 * i - 1, val |-> a.wcs]
                    ELSE NullWcs,
                    IF a.hasPolygon THEN [addr |-> base + 3 * i, val |-> a.validPolygon]
                    ELSE NullPoly,
                    a.weight)]
        coaddWcs == [addr |-> base, val |-> archive.coaddWcs]
    IN  IF archive.throwOnMissing
        THEN CoaddBoundedField3(archive.bbox, coaddWcs, elements)
        ELSE CoaddBoundedField4(archive.bbox, coaddWcs, elements, archive.default)

(***************************************************************************)
(* CoaddBoundedField: state machine                                        *)
(***************************************************************************)
NoEval == [obj |-> "none"]
NoDerivation == [op |-> "none"]

FieldInit ==
    /\ fld = NoField
    /\ fldArgs = [ctor |-> 0]
    /\ derived = NoField
    /\ derivedFrom = NoDerivation
    /\ evalRes = NoEval
    /\ nextAddr = FirstFreeAddr

Construct3 ==
    /\ ~IsField(fld)
    /\ \E args \in SeqsUpTo(ElementArgs, MaxElems) :
        /\ fld' = CoaddBoundedField3(CoaddBBox, CoaddWcs, MakeElements(args))
        /\ fldArgs' = [ctor |-> 3, elements |-> args]
    /\ UNCHANGED <<derived, derivedFrom, evalRes, nextAddr, psfVars, shapeletVars>>

Construct4 ==
    /\ ~IsField(fld)
    /\ \E args \in SeqsUpTo(ElementArgs, MaxElems), d \in Defaults :
        /\ fld' = CoaddBoundedField4(CoaddBBox, CoaddWcs, MakeElements(args), d)
        /\ fldArgs' = [ctor |-> 4, elements |-> args, default |-> d]
    /\ UNCHANGED <<derived, derivedFrom, evalRes, nextAddr, psfVars, shapeletVars>>

\* evaluate on the constructed field
EvaluateField ==
    /\ IsField(fld)
    /\ \E p \in Positions :
        evalRes' = [obj |-> "fld", p |-> p, out |-> evaluate(fld, p)]
    /\ UNCHANGED <<fld, fldArgs, derived, derivedFrom, nextAddr, psfVars, shapeletVars>>

\* evaluate on the scaled or re-read field
EvaluateDerived ==
    /\ IsField(derived)
    /\ \E p \in Positions :
        evalRes' = [obj |-> "derived", p |-> p, out |-> evaluate(derived, p)]
    /\ UNCHANGED <<fld, fldArgs, derived, derivedFrom, nextAddr, psfVars, shapeletVars>>

\* derived = fld * scale
Scale ==
    /\ IsField(fld)
    /\ ~IsField(derived)
    /\ \E scale \in Scales, scaleDefault \in BOOLEAN :
        /\ derived' = operatorTimes(fld, scale, scaleDefault, nextAddr)
        /\ derivedFrom' = [op |-> "times", scale |-> scale]
    /\ nextAddr' = nextAddr + Len(fld.elements)
    /\ UNCHANGED <<fld, fldArgs, evalRes, psfVars, shapeletVars>>

\* derived = the field read back from the archive fld was written to
WriteRead ==
    /\ IsField(fld)
    /\ ~IsField(derived)
    /\ derived' = FactoryRead(write(fld), nextAddr)
    /\ derivedFrom' = [op |-> "read"]
    /\ nextAddr' = nextAddr + 1 + 3 * Len(fld.elements)
    /\ UNCHANGED <<fld, fldArgs, evalRes, psfVars, shapeletVars>>

FieldNext ==
    \/ Construct3
    \/ Construct4
    \/ EvaluateField
    \/ EvaluateDerived
    \/ Scale
    \/ WriteRead

(***************************************************************************)
(* Collaborators of CoaddPsfKernel                                         *)
(***************************************************************************)
\* afw::detection::Psf payloads: the pixels at which the model can render its
\* kernel image, and that image (two pixels)
PsfA == [addr |-> 1, val |-> [domain |-> {0, 1, 2}, image |-> <<1, 3>>]]
PsfB == [addr |-> 2, val |-> [domain |-> {0, 1}, image |-> <<2, 2>>]]

\* afw::image::Wcs payloads: sky = pixel + shift; the transform fails at the
\* pixels in singular
KWcsPlain == [addr |-> 3, val |-> [shift |-> 0, singular |-> {}]]
KWcsShift == [addr |-> 4, val |-> [shift |-> 1, singular |-> {1}]]
\* the WCS of the coadd frame the kernel is evaluated in
KernelCoaddWcs == [addr |-> 5, val |-> [shift |-> 0, singular |-> {}]]

\* the heap holds two kernels and two CoaddPsf objects: an original and a copy
KernelAddrs == {1, 2}
PsfIds == {1, 2}

\* the argument lists a caller may pass to addPsfComponent
ComponentArgs ==
    { [psf |-> PsfA, wcs |-> KWcsPlain, bbox |-> Box(0, MaxPos), weight |-> 1],
      [psf |-> PsfB, wcs |-> KWcsShift, bbox |-> Box(0, MaxPos), weight |-> 2] }

(***************************************************************************)
(* CoaddPsfKernel                                                          *)
(***************************************************************************)
\* a constructor that leaves a stale component in _components
CoaddPsfKernelStale ==
    << [psf |-> PsfA, wcs |-> KWcsPlain, bbox |-> Box(0, MaxPos), weight |-> 1] >>

\* explicit CoaddPsfKernel() {}: _components is default-constructed, empty
CoaddPsfKernel == << >>

\* struct Component
Component(psf, wcs, bbox, weight) ==
    [psf |-> psf, wcs |-> wcs, bbox |-> bbox, weight |-> weight]

\* addPsfComponent: append a component
addPsfComponent(components, psf, wcs, bbox, weight) ==
    Append(components, Component(psf, wcs, bbox, weight))

\* getComponentCount: the current count
getComponentCount(components) == Len(components)

\* CoaddPsfKernel::clone: a new kernel with a copy of the component vector;
\* the psf and wcs pointers in the components are copied as pointers
CoaddPsfKernelClone(components) == components

\* the transform of coadd pixel x into the frame of component c fails
TransformFails(c, x) == (x + KernelCoaddWcs.val.shift - c.wcs.val.shift) \in c.wcs.val.singular

\* coadd pixel x in the frame of component c
TransformToComponent(c, x) == x + KernelCoaddWcs.val.shift - c.wcs.val.shift

\* whether component c yields an image at coadd pixel x: the transform works,
\* the point is in the component's region and its PSF can render there
ComponentRenders(c, x) ==
    /\ ~TransformFails(c, x)
    /\ BoxContains(c.bbox, TransformToComponent(c, x))
    /\ TransformToComponent(c, x) \in c.psf.val.domain

ZeroImage == <<0, 0>>
ImageAxpy(w, img, acc) == [j \in 1..2 |-> acc[j] + w * img[j]]

\* a computeImage that counts the weight of a skipped component
RECURSIVE ComputeImageLoopCountsSkipped(_, _, _, _, _)
ComputeImageLoopCountsSkipped(components, x, i, image, sum) ==
    IF i > Len(components) THEN [image |-> image, sum |-> sum]
    ELSE LET c == components[i]
         IN  IF ComponentRenders(c, x)
             THEN ComputeImageLoopCountsSkipped(components, x, i + 1,
                                   ImageAxpy(c.weight, c.psf.val.image, image),
                                   sum + c.weight)
             ELSE ComputeImageLoopCountsSkipped(components, x, i + 1, image,
                                                sum + c.weight)

\* the loop of computeImage over components i..n with the running image and
\* weight sum
RECURSIVE ComputeImageLoop(_, _, _, _, _)
ComputeImageLoop(components, x, i, image, sum) ==
    IF i > Len(components) THEN [image |-> image, sum |-> sum]
    ELSE LET c == components[i]
         IN  IF ComponentRenders(c, x)
             THEN ComputeImageLoop(components, x, i + 1,
                                   ImageAxpy(c.weight, c.psf.val.image, image),
                                   sum + c.weight)
             ELSE ComputeImageLoop(components, x, i + 1, image, sum)

\* computeImage(image, doNormalize, x): the output image and the returned sum
\* of weights, or the failure when every component was skipped
computeImage(components, doNormalize, x) ==
    LET acc == ComputeImageLoop(components, x, 1, ZeroImage, 0)
    IN  IF acc.sum = 0 THEN [kind |-> "NoValidPsfComponent"]
        ELSE [kind |-> "ok",
              image |-> [j \in 1..2 |->
                            IF doNormalize THEN Rat(acc.image[j], acc.sum)
                            ELSE RatOfInt(acc.image[j])],
              sum |-> acc.sum]

(***************************************************************************)
(* CoaddPsf                                                                *)
(***************************************************************************)
\* CoaddPsf(PTR(CoaddPsfKernel) kernel): the facade holds the kernel pointer
CoaddPsf(kernel) == [kernel |-> kernel]

\* getCoaddPsfKernel: the pointer held
getCoaddPsfKernel(psf) == psf.kernel

\* clone: make_shared<CoaddPsf>(*this), the implicit copy constructor: the
\* members are copied one by one, the kernel pointer as a pointer
CoaddPsfClone(psf) == [kernel |-> psf.kernel]

(***************************************************************************)
(* CoaddPsfKernel / CoaddPsf: state machine                                *)
(***************************************************************************)
NoPsfRes == [op |-> "none"]

PsfInit ==
    /\ kernels = << >>
    /\ kernelHist = << >>
    /\ psfs = << >>
    /\ cloneOf = << >>
    /\ psfRes = NoPsfRes

\* new CoaddPsfKernel()
NewKernel ==
    /\ Len(kernels) < Cardinality(KernelAddrs)
    /\ kernels' = Append(kernels, CoaddPsfKernel)
    /\ kernelHist' = Append(kernelHist, [ctor |-> "new", base |-> << >>, adds |-> << >>])
    /\ UNCHANGED <<psfs, cloneOf, psfRes, fieldVars, shapeletVars>>

\* kernel k: addPsfComponent(psf, wcs, bbox, weight)
AddPsfComponent ==
    \E k \in DOMAIN kernels, a \in ComponentArgs :
        /\ Len(kernels[k]) < MaxComps
        /\ kernels' = [kernels EXCEPT
                           ![k] = addPsfComponent(@, a.psf, a.wcs, a.bbox, a.weight)]
        /\ kernelHist' = [kernelHist EXCEPT ![k].adds = Append(@, a)]
        /\ UNCHANGED <<psfs, cloneOf, psfRes, fieldVars, shapeletVars>>

\* kernel k: getComponentCount()
GetComponentCount ==
    \E k \in DOMAIN kernels :
        /\ psfRes' = [op |-> "getComponentCount", kernel |-> k,
                      nAdds |-> Len(kernelHist[k].adds),
                      out |-> getComponentCount(kernels[k])]
        /\ UNCHANGED <<kernels, kernelHist, psfs, cloneOf, fieldVars, shapeletVars>>

\* kernel k: computeImage(image, doNormalize, x)
ComputeImage ==
    \E k \in DOMAIN kernels, doNormalize \in BOOLEAN, x \in Positions :
        /\ psfRes' = [op |-> "computeImage", kernel |-> k,
                      nAdds |-> Len(kernelHist[k].adds),
                      doNormalize |-> doNormalize, x |-> x,
                      out |-> computeImage(kernels[k], doNormalize, x)]
        /\ UNCHANGED <<kernels, kernelHist, psfs, cloneOf, fieldVars, shapeletVars>>

\* kernel k: clone()
KernelClone ==
    \E k \in DOMAIN kernels :
        /\ Len(kernels) < Cardinality(KernelAddrs)
        /\ kernels' = Append(kernels, CoaddPsfKernelClone(kernels[k]))
        /\ kernelHist' = Append(kernelHist,
                                [ctor |-> "clone", base |-> kernels[k], adds |-> << >>])
        /\ UNCHANGED <<psfs, cloneOf, psfRes, fieldVars, shapeletVars>>

\* new CoaddPsf(kernel) on a kernel of the heap: the first CoaddPsf; a further
\* one is made by clone
NewCoaddPsf ==
    \E k \in DOMAIN kernels :
        /\ psfs = << >>
        /\ psfs' = Append(psfs, CoaddPsf(k))
        /\ cloneOf' = Append(cloneOf, 0)
        /\ UNCHANGED <<kernels, kernelHist, psfRes, fieldVars, shapeletVars>>

\* q = p.clone() for the CoaddPsf p = psfs[i]
ClonePsf ==
    \E i \in DOMAIN psfs :
        /\ Len(psfs) < Cardinality(PsfIds)
        /\ psfs' = Append(psfs, CoaddPsfClone(psfs[i]))
        /\ cloneOf' = Append(cloneOf, i)
        /\ UNCHANGED <<kernels, kernelHist, psfRes, fieldVars, shapeletVars>>

PsfNext ==
    \/ NewKernel
    \/ AddPsfComponent
    \/ GetComponentCount
    \/ ComputeImage
    \/ KernelClone
    \/ NewCoaddPsf
    \/ ClonePsf

(***************************************************************************)
(* Collaborators of ShapeletInterpolationImpl                              *)
(***************************************************************************)
\* the largest value of the C++ type int
IntMax == 2147483647

\* the orders a policy may configure: small ones, and the two around the
\* largest n for which (n+1)*(n+2) still fits an int
Orders == (0..MaxOrder) \cup {46339, 46340}

Policies ==
    [shapeletOrder : Orders, interpOrder : Orders, interpNSigmaClip : {3},
     pcaThresh : {1}, nStarsPerCell : {1, 2}]

\* ShapeletPsfCandidate: position, shapelet coefficient, rating, BAD status
CandidatePool ==
    { [x |-> 0, shapelet |-> 1, rating |-> 1, bad |-> FALSE],
      [x |-> 1, shapelet |-> 9, rating |-> 2, bad |-> FALSE],
      [x |-> 2, shapelet |-> 2, rating |-> 1, bad |-> TRUE] }

\* the spatial cell sets: two cells, the first of at most MaxCands candidates
\* and the second of at most one
CellSets ==
    {<<c1, c2>> : c1 \in SeqsUpTo(CandidatePool, MaxCands),
                  c2 \in SeqsUpTo(CandidatePool, 1)}

QueryPositions == {0, 1}
Sigmas == {2}

\* shapelet::FittedPsf(params): the configured orders and thresholds are kept;
\* no fit has been made
FittedPsf(params) ==
    [psfOrder |-> params.psf_order, fitOrder |-> params.fitpsf_order,
     nsigmaOutlier |-> params.fitpsf_nsigma_outlier,
     pcaThresh |-> params.fitpsf_pca_thresh,
     sigma |-> 0, fitted |-> FALSE, model |-> 0]

\* FittedPsf::calculate(pos, psf, nu, flags): flags the candidates whose
\* residual exceeds the sigma-clip threshold and fits the others
FittedPsfCalculate(fit, pos, psf, nu, flags) ==
    LET out == [i \in 1..Len(flags) |->
                   IF psf[i] > fit.nsigmaOutlier THEN 1 ELSE flags[i]]
    IN  [fit |-> [fit EXCEPT !.fitted = TRUE,
                             !.model = SeqSum([i \in 1..Len(psf) |->
                                                  IF out[i] = 0 THEN psf[i] ELSE 0])],
         flags |-> out]

\* FittedPsf::interpolate(pos, b) / interpolateSingleElement(pos, i): the
\* fitted spatial polynomial at pos; "not fitted" before a fit
FittedPsfInterpolate(fit, pos, b) ==
    IF ~fit.fitted THEN [kind |-> "NotFitted"]
    ELSE [kind |-> "ok", val |-> [b EXCEPT !.coeff = fit.model + fit.fitOrder * pos]]

FittedPsfInterpolateSingleElement(fit, pos, i) ==
    IF ~fit.fitted THEN [kind |-> "NotFitted"]
    ELSE [kind |-> "ok", val |-> fit.model + fit.fitOrder * pos + i]

\* shapelet::BVec b(order, sigma)
BVec(order, sigma) == [order |-> order, sigma |-> sigma, coeff |-> 0]

(***************************************************************************)
(* LoadCandidatesVisitor                                                   *)
(***************************************************************************)
NoLists == [cand |-> << >>, pos |-> << >>, psf |-> << >>, nu |-> << >>, flags |-> << >>]

\* processCandidate: one push_back on each of the five lists
processCandidate(lists, ref, psfCand) ==
    [cand |-> Append(lists.cand, ref),
     pos |-> Append(lists.pos, psfCand.x),
     psf |-> Append(lists.psf, psfCand.shapelet),
     nu |-> Append(lists.nu, psfCand.rating),
     flags |-> Append(lists.flags, 0)]

\* SpatialCellSet::visitCandidates(visitor, nMaxPerCell): the first
\* nMaxPerCell candidates of each cell that are not BAD, cell by cell
RECURSIVE VisitCell(_, _, _, _, _)
VisitCell(cs, c, j, left, lists) ==
    IF j > Len(cs[c]) \/ left = 0 THEN lists
    ELSE IF cs[c][j].bad THEN VisitCell(cs, c, j + 1, left, lists)
    ELSE VisitCell(cs, c, j + 1, left - 1,
                   processCandidate(lists, [cell |-> c, idx |-> j], cs[c][j]))

RECURSIVE visitCandidates(_, _, _, _)
visitCandidates(cs, nMaxPerCell, c, lists) ==
    IF c > Len(cs) THEN lists
    ELSE visitCandidates(cs, nMaxPerCell, c + 1, VisitCell(cs, c, 1, nMaxPerCell, lists))

(***************************************************************************)
(* ShapeletInterpolationImpl                                               *)
(***************************************************************************)
NoEngine == [kind |-> "none"]
IsEngine(e) == e.kind = "ShapeletInterpolationImpl"

\* a constructor that takes the fit for already made
ShapeletInterpolationImplFitted(policy) ==
    [kind |-> "ShapeletInterpolationImpl",
     fit |-> [FittedPsf([psf_order |-> policy.shapeletOrder,
                         fitpsf_order |-> policy.interpOrder,
                         fitpsf_nsigma_outlier |-> policy.interpNSigmaClip,
                         fitpsf_pca_thresh |-> policy.pcaThresh])
              EXCEPT !.fitted = TRUE],
     nStarsPerCell |-> policy.nStarsPerCell]

ShapeletInterpolationImpl(policy) ==
    [kind |-> "ShapeletInterpolationImpl",
     fit |-> FittedPsf([psf_order |-> policy.shapeletOrder,
                        fitpsf_order |-> policy.interpOrder,
                        fitpsf_nsigma_outlier |-> policy.interpNSigmaClip,
                        fitpsf_pca_thresh |-> policy.pcaThresh]),
     nStarsPerCell |-> policy.nStarsPerCell]

getOrder(e) == e.fit.psfOrder
getFitOrder(e) == e.fit.fitOrder
getSigma(e) == e.fit.sigma

\* the exact value of (n+1)*(n+2)/2, computed without a product beyond it
TriangleNumber(n) ==
    IF n % 2 = 0 THEN (n + 1) * ((n + 2) \div 2) ELSE ((n + 1) \div 2) * (n + 2)

\* the values the int expression (n+1)*(n+2)/2 can yield.  When the product
\* fits an int there is one.  When it does not, the signed overflow is
\* undefined: the product wraps modulo 2^32 before the division, or is kept
\* in a wider register and the quotient is exact.
IntTriangle(n) ==
    IF n + 1 <= IntMax \div (n + 2) THEN {((n + 1) * (n + 2)) \div 2}
    ELSE {TriangleNumber(n) - IntMax - 1, TriangleNumber(n)}

\* a getSize that counts the coefficients of order - 1
getSizeOffByOne(e) == IntTriangle(getOrder(e) - 1)

\* getSize: (getOrder()+1)*(getOrder()+2)/2
getSize(e) == IntTriangle(getOrder(e))

\* getFitSize: (getFitOrder()+1)*(getFitOrder()+2)/2
getFitSize(e) == IntTriangle(getFitOrder(e))

setSigma(e, sigma) == [e EXCEPT !.fit.sigma = sigma]

\* a calculate that marks every loaded candidate BAD, flagged or not
calculateMarksLoaded(e, cs) ==
    LET lists == visitCandidates(cs, e.nStarsPerCell, 1, NoLists)
        fitted == FittedPsfCalculate(e.fit, lists.pos, lists.psf, lists.nu, lists.flags)
        marked == {lists.cand[i] : i \in 1..Len(lists.cand)}
    IN  [eng |-> [e EXCEPT !.fit = fitted.fit],
         cells |-> [c \in 1..Len(cs) |->
                      [j \in 1..Len(cs[c]) |->
                          IF [cell |-> c, idx |-> j] \in marked
                          THEN [cs[c][j] EXCEPT !.bad = TRUE]
                          ELSE cs[c][j]]],
         lists |-> [lists EXCEPT !.flags = fitted.flags]]

\* calculate: load the candidates, fit, and mark the flagged candidates BAD
calculate(e, cs) ==
    LET lists == visitCandidates(cs, e.nStarsPerCell, 1, NoLists)
        fitted == FittedPsfCalculate(e.fit, lists.pos, lists.psf, lists.nu, lists.flags)
        marked == {lists.cand[i] : i \in {j \in 1..Len(lists.cand) : fitted.flags[j] # 0}}
    IN  [eng |-> [e EXCEPT !.fit = fitted.fit],
         cells |-> [c \in 1..Len(cs) |->
                      [j \in 1..Len(cs[c]) |->
                          IF [cell |-> c, idx |-> j] \in marked
                          THEN [cs[c][j] EXCEPT !.bad = TRUE]
                          ELSE cs[c][j]]],
         lists |-> [lists EXCEPT !.flags = fitted.flags]]

interpolate(e, x) == FittedPsfInterpolate(e.fit, x, BVec(getOrder(e), getSigma(e)))

interpolateSingleElement(e, x, i) == FittedPsfInterpolateSingleElement(e.fit, x, i)

(***************************************************************************)
(* ShapeletInterpolationImpl: state machine                                *)
(***************************************************************************)
NoShRes == [op |-> "none"]

ShapeletInit ==
    /\ eng = NoEngine
    /\ engPolicy = [shapeletOrder |-> 0]
    /\ cells = << >>
    /\ calcDone = FALSE
    /\ shRes = NoShRes

\* the candidate store is filled by the caller
LoadCells ==
    /\ cells = << >>
    /\ cells' \in CellSets
    /\ UNCHANGED <<eng, engPolicy, calcDone, shRes, fieldVars, psfVars>>

ConstructEngine ==
    /\ ~IsEngine(eng)
    /\ \E policy \in Policies :
        /\ eng' = ShapeletInterpolationImpl(policy)
        /\ engPolicy' = policy
    /\ UNCHANGED <<cells, calcDone, shRes, fieldVars, psfVars>>

GetSize ==
    /\ IsEngine(eng)
    /\ \E v \in getSize(eng) :
        shRes' = [op |-> "getSize", order |-> getOrder(eng), out |-> v]
    /\ UNCHANGED <<eng, engPolicy, cells, calcDone, fieldVars, psfVars>>

GetFitSize ==
    /\ IsEngine(eng)
    /\ \E v \in getFitSize(eng) :
        shRes' = [op |-> "getFitSize", order |-> getFitOrder(eng), out |-> v]
    /\ UNCHANGED <<eng, engPolicy, cells, calcDone, fieldVars, psfVars>>

SetSigma ==
    /\ IsEngine(eng)
    /\ \E sigma \in Sigmas : eng' = setSigma(eng, sigma)
    /\ UNCHANGED <<engPolicy, cells, calcDone, shRes, fieldVars, psfVars>>

\* calculate runs to completion
Calculate ==
    /\ IsEngine(eng)
    /\ cells # << >>
    /\ eng' = calculate(eng, cells).eng
    /\ cells' = calculate(eng, cells).cells
    /\ calcDone' = TRUE
    /\ shRes' = [op |-> "calculate", lists |-> calculate(eng, cells).lists,
                 before |-> cells]
    /\ UNCHANGED <<engPolicy, fieldVars, psfVars>>

\* calculate is left by an exception of the fit: nothing is fitted or marked
CalculateThrows ==
    /\ IsEngine(eng)
    /\ cells # << >>
    /\ shRes' = [op |-> "calculateThrows"]
    /\ UNCHANGED <<eng, engPolicy, cells, calcDone, fieldVars, psfVars>>

Interpolate ==
    /\ IsEngine(eng)
    /\ \E x \in QueryPositions :
        shRes' = [op |-> "interpolate", x |-> x, calcDone |-> calcDone,
                  out |-> interpolate(eng, x)]
    /\ UNCHANGED <<eng, engPolicy, cells, calcDone, fieldVars, psfVars>>

InterpolateSingleElement ==
    /\ IsEngine(eng)
    /\ \E x \in QueryPositions, i \in {0, 1} :
        shRes' = [op |-> "interpolateSingleElement", x |-> x, i |-> i,
                  calcDone |-> calcDone,
                  out |-> interpolateSingleElement(eng, x, i)]
    /\ UNCHANGED <<eng, engPolicy, cells, calcDone, fieldVars, psfVars>>

ShapeletNext ==
    \/ LoadCells
    \/ ConstructEngine
    \/ GetSize
    \/ GetFitSize
    \/ SetSigma
    \/ Calculate
    \/ CalculateThrows
    \/ Interpolate
    \/ InterpolateSingleElement

(***************************************************************************)
(* Specifications                                                          *)
(***************************************************************************)
Init == FieldInit /\ PsfInit /\ ShapeletInit

Next == FieldNext \/ PsfNext \/ ShapeletNext

SpecField == Init /\ [][FieldNext]_vars
SpecPsf == Init /\ [][PsfNext]_vars
SpecShapelet == Init /\ [][ShapeletNext]_vars

(***************************************************************************)
(* Properties of CoaddBoundedField (checked under SpecField)               *)
(*                                                                         *)
(* The properties are stated on the constructor arguments recorded in      *)
(* fldArgs, not on the fields of the object built from them.               *)
(***************************************************************************)
\* position p of the coadd frame in the frame of the exposure of argument a
ArgPosition(a, p) == IF a.wcs.addr = 0 THEN p ELSE p + CoaddWcs.val - a.wcs.val

\* whether the exposure of argument a contributes at coadd position p
ArgContributes(a, p) ==
    LET x == ArgPosition(a, p)
    IN  IF a.validPolygon.addr = 0
        THEN a.field.val.bbox.lo <= x /\ x <= a.field.val.bbox.hi
        ELSE x \in a.validPolygon.val

ArgValue(a, p) == a.field.val.c0 + a.field.val.c1 * ArgPosition(a, p)

\* (sum of wi * fi(pi)) / (sum of wi) over all the arguments
WeightedMean(args, p) ==
    Rat(SeqSum([i \in 1..Len(args) |-> args[i].weight * ArgValue(args[i], p)]),
        SeqSum([i \in 1..Len(args) |-> args[i].weight]))

Reordered(f, perm) ==
    [f EXCEPT !.elements = [i \in 1..Len(f.elements) |-> f.elements[perm[i]]]]

EvaluatedOnFld == IsField(fld) /\ evalRes.obj = "fld"

NoneContributes(p) ==
    \A i \in 1..Len(fldArgs.elements) : ~ArgContributes(fldArgs.elements[i], p)

SomeContributes(p) ==
    \E i \in 1..Len(fldArgs.elements) : ArgContributes(fldArgs.elements[i], p)

\* C1: at a position where every element contributes, evaluate returns the
\* weighted mean (sum of wi * fi(pi)) / (sum of wi) of the elements the field
\* was built from, and returns the same for every reordering of the elements.
C1_EvaluateIsWeightedMean ==
    (/\ EvaluatedOnFld
     /\ Len(fldArgs.elements) >= 1
     /\ \A i \in 1..Len(fldArgs.elements) :
            ArgContributes(fldArgs.elements[i], evalRes.p))
    => /\ evalRes.out = [kind |-> "value",
                         val |-> WeightedMean(fldArgs.elements, evalRes.p)]
       /\ \A perm \in Permutations(1..Len(fld.elements)) :
            evaluate(Reordered(fld, perm), evalRes.p) = evalRes.out

\* C1 witness: two contributing elements with different weights and values
C1_Witness ==
    /\ EvaluatedOnFld
    /\ Len(fldArgs.elements) = 2
    /\ \A i \in 1..2 : ArgContributes(fldArgs.elements[i], evalRes.p)
    /\ fldArgs.elements[1].weight # fldArgs.elements[2].weight
    /\ ArgValue(fldArgs.elements[1], evalRes.p) # ArgValue(fldArgs.elements[2], evalRes.p)
    /\ evalRes.out.kind = "value"
    /\ evalRes.out.val.den # 1

\* C2: a field built by the four-argument constructor with default d returns
\* exactly d, and does not fail, at a position where no element contributes.
C2_DefaultWhenNoContribution ==
    (EvaluatedOnFld /\ fldArgs.ctor = 4 /\ NoneContributes(evalRes.p))
    => evalRes.out = [kind |-> "value", val |-> RatOfInt(fldArgs.default)]

\* C2 witness: a non-empty field with default 5 asked outside every region
C2_Witness ==
    /\ EvaluatedOnFld
    /\ fldArgs.ctor = 4
    /\ fldArgs.default = 5
    /\ Len(fldArgs.elements) = 2
    /\ NoneContributes(evalRes.p)
    /\ evalRes.out.kind = "value"

\* C3: a field built by the three-argument constructor fails with
\* NoContribution, and returns no number, at a position where no element
\* contributes.
C3_NoContributionWithoutDefault ==
    (EvaluatedOnFld /\ fldArgs.ctor = 3 /\ NoneContributes(evalRes.p))
    => evalRes.out = [kind |-> "NoContribution"]

\* C3 witness: a non-empty field without default asked outside every region
C3_Witness ==
    /\ EvaluatedOnFld
    /\ fldArgs.ctor = 3
    /\ Len(fldArgs.elements) >= 1
    /\ NoneContributes(evalRes.p)
    /\ evalRes.out.kind = "NoContribution"

\* the weighted mean over the arguments that contribute at p
WeightedMeanOfContributing(p) ==
    LET args == fldArgs.elements
        w(i) == IF ArgContributes(args[i], p) THEN args[i].weight ELSE 0
    IN  Rat(SeqSum([i \in 1..Len(args) |-> w(i) * ArgValue(args[i], p)]),
            SeqSum([i \in 1..Len(args) |-> w(i)]))

\* the field the recorded constructor call builds
FieldOfArgs ==
    IF fldArgs.ctor = 3
    THEN CoaddBoundedField3(CoaddBBox, CoaddWcs, MakeElements(fldArgs.elements))
    ELSE CoaddBoundedField4(CoaddBBox, CoaddWcs, MakeElements(fldArgs.elements),
                            fldArgs.default)

\* f * s keeps the weights and valid regions of f, and f is as constructed
ScaleKeepsWeightsAndRegions ==
    /\ fld = FieldOfArgs
    /\ derived.bbox = CoaddBBox
    /\ Len(derived.elements) = Len(fldArgs.elements)
    /\ \A i \in 1..Len(fldArgs.elements) :
        /\ derived.elements[i].weight = fldArgs.elements[i].weight
        /\ derived.elements[i].wcs = fldArgs.elements[i].wcs
        /\ derived.elements[i].validPolygon = fldArgs.elements[i].validPolygon
        /\ derived.elements[i].field.val.bbox = fldArgs.elements[i].field.val.bbox

C5_RoundTripEqual ==
    derivedFrom.op = "read"
    => /\ FieldEq(fld, fld)
       /\ FieldEq(derived, derived)
       /\ FieldEq(fld, derived) = FieldEq(derived, fld)
       /\ FieldEq(derived, fld)

(***************************************************************************)
(* Properties of CoaddPsfKernel and CoaddPsf (checked under SpecPsf)       *)
(*                                                                         *)
(* The properties are stated on the calls recorded in kernelHist: the      *)
(* components a kernel was created with and the addPsfComponent calls made *)
(* on it since, in call order.                                             *)
(***************************************************************************)
\* what the first n addPsfComponent calls on kernel k should have left in it
ComponentsAfter(k, n) == kernelHist[k].base \o SubSeq(kernelHist[k].adds, 1, n)

\* C6: a freshly constructed kernel has no component; after n addPsfComponent
\* calls a kernel holds the components it was created with followed by the n
\* added ones in call order, so getComponentCount() = n on a constructed
\* kernel; computeImage, getComponentCount and clone change no kernel.
C6_ComponentCountIsNumberOfAdds ==
    /\ \A k \in DOMAIN kernels :
        /\ kernelHist[k].ctor = "new" => kernelHist[k].base = << >>
        /\ kernels[k] = ComponentsAfter(k, Len(kernelHist[k].adds))
        /\ kernelHist[k].ctor = "new"
           => getComponentCount(kernels[k]) = Len(kernelHist[k].adds)
    /\ psfRes.op = "getComponentCount"
       => psfRes.out = Len(kernelHist[psfRes.kernel].base) + psfRes.nAdds

\* C6 witness: a constructed kernel after two different adds, and a clone of
\* a non-empty kernel, with getComponentCount() = 2 just returned
C6_Witness ==
    /\ Len(kernels) = 2
    /\ kernelHist[1].ctor = "new"
    /\ Len(kernelHist[1].adds) = 2
    /\ kernelHist[1].adds[1] # kernelHist[1].adds[2]
    /\ kernelHist[2].ctor = "clone"
    /\ Len(kernelHist[2].base) = 1
    /\ psfRes.op = "getComponentCount"
    /\ psfRes.kernel = 1
    /\ psfRes.out = 2

\* the components of the call recorded in psfRes, and those that render
CalledComponents == ComponentsAfter(psfRes.kernel, psfRes.nAdds)

Rendering ==
    {i \in 1..Len(CalledComponents) : ComponentRenders(CalledComponents[i], psfRes.x)}

RenderingSum(F(_)) ==
    SeqSum([i \in 1..Len(CalledComponents) |->
               IF i \in Rendering THEN F(CalledComponents[i]) ELSE 0])

\* C7: computeImage fails with the no-valid-component error exactly when
\* every component is skipped (in particular when there is none); otherwise
\* it succeeds, and the returned weight sum and the image come from the
\* components that render alone.
C7_SkippedComponentsDoNotCount ==
    psfRes.op = "computeImage"
    => LET total == RenderingSum(LAMBDA c : c.weight)
           pixel(j) == RenderingSum(LAMBDA c : c.weight * c.psf.val.image[j])
       IN  /\ (psfRes.out.kind = "NoValidPsfComponent") <=> (Rendering = {})
           /\ Rendering # {}
              => /\ psfRes.out.kind = "ok"
                 /\ psfRes.out.sum = total
                 /\ \A j \in 1..2 :
                      psfRes.out.image[j] =
                          IF psfRes.doNormalize THEN Rat(pixel(j), total)
                          ELSE RatOfInt(pixel(j))

\* C7 witness: a call that succeeds with one component skipped and one used
C7_Witness ==
    /\ psfRes.op = "computeImage"
    /\ Len(CalledComponents) = 2
    /\ Cardinality(Rendering) = 1
    /\ psfRes.out.kind = "ok"
    /\ psfRes.doNormalize

\* C8 as stated: after q = p.clone(), an addPsfComponent on the kernel of p
\* leaves the components of the kernel of q unchanged, and the other way
\* round.
C8_CloneHasItsOwnKernel ==
    [][\A q \in DOMAIN psfs :
          cloneOf[q] # 0
          => LET kp == getCoaddPsfKernel(psfs[cloneOf[q]])
                 kq == getCoaddPsfKernel(psfs[q])
             IN  /\ kernels'[kp] # kernels[kp] => kernels'[kq] = kernels[kq]
                 /\ kernels'[kq] # kernels[kq] => kernels'[kp] = kernels[kp]]_vars

(***************************************************************************)
(* Properties of ShapeletInterpolationImpl (checked under SpecShapelet)    *)
(***************************************************************************)
SizeQueried == IsEngine(eng) /\ shRes.op = "getSize"
FitSizeQueried == IsEngine(eng) /\ shRes.op = "getFitSize"

\* C9 as stated: for every configured shapeletOrder n >= 0 and interpOrder
\* m >= 0, getOrder() = n, getFitOrder() = m, getSize() = (n+1)(n+2)/2 and
\* getFitSize() = (m+1)(m+2)/2, whatever was called before.
C9_SizesForEveryOrder ==
    /\ SizeQueried
       => /\ shRes.order = engPolicy.shapeletOrder
          /\ shRes.out = TriangleNumber(engPolicy.shapeletOrder)
    /\ FitSizeQueried
       => /\ shRes.order = engPolicy.interpOrder
          /\ shRes.out = TriangleNumber(engPolicy.interpOrder)

\* C9 amended: the same for every configured order from 0 to 46339, the
\* largest n for which (n+1)*(n+2) fits the type int; the orders themselves
\* are reported as configured for every n, m >= 0.
C9_SizesForOrdersThatFit ==
    /\ SizeQueried
       => /\ shRes.order = engPolicy.shapeletOrder
          /\ engPolicy.shapeletOrder <= 46339
             => shRes.out = TriangleNumber(engPolicy.shapeletOrder)
    /\ FitSizeQueried
       => /\ shRes.order = engPolicy.interpOrder
          /\ engPolicy.interpOrder <= 46339
             => shRes.out = TriangleNumber(engPolicy.interpOrder)

\* C9 witness: getSize() on an engine of order 46339 after calculate and
\* setSigma
C9_Witness ==
    /\ SizeQueried
    /\ engPolicy.shapeletOrder = 46339
    /\ shRes.out = 1073720970
    /\ calcDone
    /\ getSigma(eng) # 0

InterpolationQueried == shRes.op \in {"interpolate", "interpolateSingleElement"}

\* C10: interpolate and interpolateSingleElement fail with NotFitted as long
\* as no calculate has completed on the engine and succeed once one has, and
\* a call of either leaves the engine as it was.
C10_InterpolateOnlyWhenFitted ==
    /\ [](InterpolationQueried
          => /\ ~shRes.calcDone => shRes.out = [kind |-> "NotFitted"]
             /\ shRes.calcDone => shRes.out.kind = "ok")
    /\ [][(shRes' # shRes /\ shRes'.op \in {"interpolate", "interpolateSingleElement"})
          => (eng' = eng /\ cells' = cells)]_vars

\* C10 witness: interpolate refused on a constructed engine, with candidates
\* loaded, on which no calculate has completed
C10_Witness ==
    /\ IsEngine(eng)
    /\ cells # << >>
    /\ ~calcDone
    /\ shRes.op = "interpolate"
    /\ shRes.out.kind = "NotFitted"

(***************************************************************************)
(* C11: the lists of calculate and the marking of candidates               *)
(***************************************************************************)
\* a calculate call has just returned: shRes holds its five lists as they
\* were after the fit and the candidate store as it was before the call
CalculateReturned == IsEngine(eng) /\ shRes.op = "calculate"

\* the candidates of a store, by cell and index in the cell
CandidateRefs(cs) ==
    UNION {{[cell |-> c, idx |-> j] : j \in 1..Len(cs[c])} : c \in 1..Len(cs)}

\* the indices at which the candidate r was loaded
LoadedAt(lists, r) == {i \in 1..Len(lists.cand) : lists.cand[i] = r}

\* C11: after calculate the five lists have one length; index i of each
\* holds the candidate, its position, its shapelet vector and its rating, and
\* a flag that is nonzero only where the fit set it; no cell gave more than
\* nStarsPerCell candidates and none was loaded twice.  A loaded candidate
\* whose flag is nonzero is BAD afterwards, one whose flag is 0 has the status
\* it had before, a candidate that was not loaded has the status it had
\* before, and nothing else of any candidate changed.
C11_FlaggedCandidatesAreMarked ==
    CalculateReturned =>
        LET lists == shRes.lists
            before == shRes.before
            n == Len(lists.cand)
        IN  /\ Len(lists.pos) = n /\ Len(lists.psf) = n
            /\ Len(lists.nu) = n /\ Len(lists.flags) = n
            /\ \A i \in 1..n :
                  /\ lists.cand[i] \in CandidateRefs(before)
                  /\ LET r == lists.cand[i]
                         psfCand == before[r.cell][r.idx]
                     IN  /\ lists.pos[i] = psfCand.x
                         /\ lists.psf[i] = psfCand.shapelet
                         /\ lists.nu[i] = psfCand.rating
                         /\ lists.flags[i] # 0 =>
                                psfCand.shapelet > eng.fit.nsigmaOutlier
                         /\ lists.flags[i] # 0 => cells[r.cell][r.idx].bad
                         /\ lists.flags[i] = 0 =>
                                cells[r.cell][r.idx].bad = psfCand.bad
            /\ \A c \in 1..Len(before) :
                  Cardinality({i \in 1..n : lists.cand[i].cell = c})
                      <= eng.nStarsPerCell
            /\ Len(cells) = Len(before)
            /\ \A c \in 1..Len(before) : Len(cells[c]) = Len(before[c])
            /\ \A r \in CandidateRefs(before) :
                  /\ Cardinality(LoadedAt(lists, r)) <= 1
                  /\ LoadedAt(lists, r) = {} =>
                        cells[r.cell][r.idx] = before[r.cell][r.idx]
                  /\ cells[r.cell][r.idx] =
                        [before[r.cell][r.idx] EXCEPT
                            !.bad = cells[r.cell][r.idx].bad]

\* a calculate that loaded a candidate the fit flagged and one it did not,
\* left a good candidate out because its cell had given nStarsPerCell
\* candidates already, and marked the flagged one
C11_Witness ==
    /\ CalculateReturned
    /\ \E i, j \in 1..Len(shRes.lists.cand) :
          /\ shRes.lists.flags[i] # 0
          /\ cells[shRes.lists.cand[i].cell][shRes.lists.cand[i].idx].bad
          /\ ~shRes.before[shRes.lists.cand[i].cell][shRes.lists.cand[i].idx].bad
          /\ shRes.lists.flags[j] = 0
          /\ ~cells[shRes.lists.cand[j].cell][shRes.lists.cand[j].idx].bad
    /\ \E r \in CandidateRefs(shRes.before) :
          /\ LoadedAt(shRes.lists, r) = {}
          /\ ~shRes.before[r.cell][r.idx].bad
          /\ ~cells[r.cell][r.idx].bad

=============================================================================
